---- MODULE Spec2Model ----
(***************************************************************************)
(* A model of click's stream compatibility layer: src/click/_compat.py and *)
(* src/click/_wrappers.py.                                                 *)
(*                                                                         *)
(* Python values are represented as follows.                               *)
(*   - Optional[T]: None is the empty tuple, a value v is <<v>>.           *)
(*   - str holding an encoding / error policy / path: a TLA+ string.       *)
(*   - str scanned by the ANSI pattern: a sequence of code points.         *)
(*   - a stream object: a record [kind, name, id]; identity (Python's      *)
(*     `is`) is equality of these records.                                 *)
(*   - the outcome of a call: a record with exc = None and the returned    *)
(*     value, or exc = <<name of the exception>>.                          *)
(***************************************************************************)
EXTENDS Integers, Sequences, FiniteSets, TLC

VARIABLES
    value,            \* strip_ansi / term_len: the str handed to the calls
    stripped,         \* Optional: what strip_ansi(value) returned
    tlen,             \* Optional: what term_len(value) returned
    sys_streams,      \* sys.stdin / sys.stdout / sys.stderr: their attributes
    default_encoding, \* what sys.getdefaultencoding() returns
    heap,             \* the _NonClosingTextIOWrapper objects constructed
    buffer_closed,    \* sys.<name>.buffer.closed, for each standard stream
    pid,              \* what os.getpid() returns
    cache,            \* the cache dict of each accessor: pid -> stream
    hist,             \* the calls of the cached accessors made so far
    pc,               \* per thread: the line of get_stream it is at
    frame,            \* per thread: get_stream's local variables
    calls,            \* per thread: the calls it has begun
    result,           \* per thread: the outcome of its last finished call
    last_write,       \* per accessor: the stream of the last cache[pid] = stream
    fs,               \* the paths that exist in the file system
    handles,          \* the file objects open() has returned
    colorama,         \* the colorama package: installed, its enable attribute
    _ansi_stream_wrappers, \* the WeakKeyDictionary of auto_wrap_for_ansi
    ansi_built,       \* the colorama.AnsiToWin32 objects built so far
    last              \* the last call made: its arguments and its outcome

ansiVars == <<value, stripped, tlen>>

envVars == <<sys_streams, default_encoding>>

objVars == <<heap, buffer_closed>>

cacheVars == <<pid, cache, hist>>

threadVars == <<pc, frame, calls, result, last_write>>

openVars == <<fs, handles>>

winVars == <<colorama, _ansi_stream_wrappers, ansi_built>>

vars == <<ansiVars, envVars, objVars, cacheVars, threadVars, openVars, winVars, last>>

(***************************************************************************)
(* Optional values.                                                        *)
(***************************************************************************)
None == <<>>

Some(v) == <<v>>

Get(o) == o[1]

(***************************************************************************)
(* Bounds of the model.                                                    *)
(***************************************************************************)
\* longest str handed to strip_ansi / term_len
MaxLen == 6

\* most wrappers constructed in one run
MaxWrappers == 2

\* the process ids os.getpid() takes
MaxPid == 2

\* most calls of the cached accessors in one run
MaxCalls == 3

\* the threads of the process
NThreads == 2

\* most file objects open at once in one run
MaxOpen == 2

\* most calls one thread makes
MaxCallsPerThread == 2

(***************************************************************************)
(* Python values handed to and returned by the functions.                  *)
(***************************************************************************)
PyNone == <<"NoneType">>

PyStr(s) == <<"str", s>>

PyObj(o) == <<"object", o>>

IsNone(v) == v[1] = "NoneType"

IsStr(v) == v[1] = "str"

\* bool(v): None and '' are false, every other str and every stream is true
Truthy(v) == ~IsNone(v) /\ (IsStr(v) => v[2] # "")

\* the three standard streams of the sys module
StdNames == {"stdin", "stdout", "stderr"}

\* the text stream object bound to sys.<name>
SysStream(n) == [kind |-> "sys", name |-> n, id |-> 0]

\* the binary stream sys.<name>.buffer
SysBuffer(n) == [kind |-> "buffer", name |-> n, id |-> 0]

\* the i-th _NonClosingTextIOWrapper constructed, over sys.<name>.buffer
WrapperObj(n, i) == [kind |-> "wrapper", name |-> n, id |-> i]

\* no stream: the value slot of a call that raised
NoStream == [kind |-> "none", name |-> "", id |-> 0]

\* a call that returned v
Returned(v) == [exc |-> None, rv |-> v, new |-> None]

\* a call that raised the exception e
Raised(e) == [exc |-> Some(e), rv |-> NoStream, new |-> None]

\* no call made yet
NoCall == [op |-> "none"]

\* a standard stream's errors attribute as the interpreter sets it up:
\* 'strict' for stdin and stdout, 'backslashreplace' for stderr
DeclaredErrors(n) ==
    IF n = "stderr" THEN PyStr("backslashreplace") ELSE PyStr("strict")

\* the environment and the objects of a specification that does not use them
IdleEnv ==
    /\ sys_streams = [n \in StdNames |->
                        [encoding |-> PyStr("utf-8"), errors |-> DeclaredErrors(n),
                         tty |-> "no"]]
    /\ default_encoding = "utf-8"

IdleObj ==
    /\ heap = <<>>
    /\ buffer_closed = [n \in StdNames |-> FALSE]

IdleAnsi ==
    /\ value = <<>>
    /\ stripped = None
    /\ tlen = None

IdleCache ==
    /\ pid = 1
    /\ cache = <<>>
    /\ hist = <<>>

IdleOpen ==
    /\ fs = {}
    /\ handles = <<>>

IdleWin ==
    /\ colorama = [installed |-> FALSE, has_enable |-> FALSE, enable |-> FALSE]
    /\ _ansi_stream_wrappers = <<>>
    /\ ansi_built = 0

\* no call finished yet
NoResult == [name |-> "", exc |-> None, rv |-> NoStream, seen |-> PyNone]

IdleThreads ==
    /\ pc = <<>>
    /\ frame = <<>>
    /\ calls = <<>>
    /\ result = <<>>
    /\ last_write = <<>>

notAnsi == <<envVars, objVars, cacheVars, threadVars, openVars, winVars, last>>

(***************************************************************************)
(* _compat.py:13  _ansi_re = re.compile('\033\[[;?0-9]*[a-zA-Z]')          *)
(***************************************************************************)
\* '\033'
ESC == 27

\* '['
LBRACKET == 91

\* the class [;?0-9]
IsParam(c) == c = 59 \/ c = 63 \/ c \in 48..57

\* the class [a-zA-Z]
IsLetter(c) == c \in 97..122 \/ c \in 65..90

\* The code points the checked strs are built from: ESC, '[', a parameter
\* character '0', a letter 'm', and ' ' which is in neither class.
Alphabet == {ESC, LBRACKET, 48, 109, 32}

Strs == UNION {[1..n -> Alphabet] : n \in 0..MaxLen}

\* [;?0-9]* from index k: the first index not holding a parameter character
\* (the star is greedy and the two classes are disjoint, so no backtracking
\* ever finds another match).
RECURSIVE ParamRunEnd(_, _)
ParamRunEnd(s, k) ==
    IF k <= Len(s) /\ IsParam(s[k]) THEN ParamRunEnd(s, k + 1) ELSE k

\* _ansi_re.match at index i: the index just after the match, 0 for no match.
_ansi_re_match(s, i) ==
    IF i + 1 <= Len(s) /\ s[i] = ESC /\ s[i + 1] = LBRACKET
    THEN LET k == ParamRunEnd(s, i + 2)
         IN  IF k <= Len(s) /\ IsLetter(s[k]) THEN k + 1 ELSE 0
    ELSE 0

\* _ansi_re.sub('', s) from index i: one left-to-right scan that drops each
\* match it finds and resumes after it; the text already emitted is never
\* scanned again.
RECURSIVE _ansi_re_sub(_, _)
_ansi_re_sub(s, i) ==
    IF i > Len(s) THEN <<>>
    ELSE LET e == _ansi_re_match(s, i)
         IN  IF e > 0 THEN _ansi_re_sub(s, e)
             ELSE <<s[i]>> \o _ansi_re_sub(s, i + 1)

\* a plausible slip: sub(..., count=1), only the first sequence is removed
strip_ansi_first_only(v) ==
    LET starts == {i \in 1..Len(v) : _ansi_re_match(v, i) > 0}
    IN  IF starts = {} THEN v
        ELSE LET i == CHOOSE m \in starts : \A n \in starts : m <= n
             IN  SubSeq(v, 1, i - 1) \o SubSeq(v, _ansi_re_match(v, i), Len(v))

\* _compat.py:111  strip_ansi
strip_ansi(v) == _ansi_re_sub(v, 1)

\* a plausible slip: the raw length
term_len_raw(x) == Len(x)

\* _compat.py:124  term_len
term_len(x) == Len(strip_ansi(x))

(***************************************************************************)
(* The ANSI helpers called on a str.                                       *)
(***************************************************************************)
InitAnsi ==
    /\ value \in Strs
    /\ stripped = None
    /\ tlen = None
    /\ IdleEnv
    /\ IdleObj
    /\ IdleCache
    /\ IdleThreads
    /\ last = NoCall
    /\ IdleOpen
    /\ IdleWin

CallStripAnsi ==
    /\ stripped = None
    /\ stripped' = Some(strip_ansi(value))
    /\ UNCHANGED <<value, tlen>>
    /\ UNCHANGED notAnsi

CallTermLen ==
    /\ tlen = None
    /\ tlen' = Some(term_len(value))
    /\ UNCHANGED <<value, stripped>>
    /\ UNCHANGED notAnsi

NextAnsi ==
    \/ CallStripAnsi
    \/ CallTermLen

SpecAnsi == InitAnsi /\ [][NextAnsi]_vars

\* s holds a substring the CSI pattern recognises: ESC '[' parameters letter
HasCSI(s) ==
    \E i, j \in 1..Len(s) :
        /\ i + 1 < j
        /\ s[i] = ESC
        /\ s[i + 1] = LBRACKET
        /\ \A k \in (i + 2)..(j - 1) : IsParam(s[k])
        /\ IsLetter(s[j])

\* a CSI sequence of s starts at index j
CSIAt(s, j) ==
    \E e \in 1..Len(s) :
        /\ j + 1 < e
        /\ s[j] = ESC
        /\ s[j + 1] = LBRACKET
        /\ \A k \in (j + 2)..(e - 1) : IsParam(s[k])
        /\ IsLetter(s[e])

\* the text of s just before index j is an unfinished sequence: ESC alone,
\* or ESC '[' and parameter characters
UnfinishedBefore(s, j) ==
    \E i \in 1..(j - 1) :
        /\ s[i] = ESC
        /\ \/ i = j - 1
           \/ /\ s[i + 1] = LBRACKET
              /\ \A k \in (i + 2)..(j - 1) : IsParam(s[k])

\* some CSI sequence of s directly follows an unfinished one
Nested(s) == \E j \in 1..Len(s) : CSIAt(s, j) /\ UnfinishedBefore(s, j)

\* C8: term_len(x) is the length of strip_ansi(x); it is len(x) for a str
\* with no CSI sequence, and never more than len(x).
C8_TermLen ==
    tlen # None =>
        /\ stripped # None => Get(tlen) = Len(Get(stripped))
        /\ ~HasCSI(value) => Get(tlen) = Len(value)
        /\ Get(tlen) <= Len(value)

\* C8 witness: both calls were made on a str holding a CSI sequence and text
C8_Witness ==
    /\ tlen # None
    /\ stripped # None
    /\ HasCSI(value)
    /\ Get(tlen) > 0

\* C9 as claimed: for every str, the result of strip_ansi holds no CSI
\* sequence and strip_ansi leaves it unchanged.
C9_Original ==
    stripped # None =>
        /\ ~HasCSI(Get(stripped))
        /\ strip_ansi(Get(stripped)) = Get(stripped)

\* C9 amended: for every str in which no CSI sequence directly follows an
\* unfinished sequence, the result of strip_ansi holds no CSI sequence and
\* strip_ansi leaves it unchanged.
C9_Amended ==
    (stripped # None /\ ~Nested(value)) =>
        /\ ~HasCSI(Get(stripped))
        /\ strip_ansi(Get(stripped)) = Get(stripped)

\* C9 witness: two CSI sequences were removed from a str of the amended
\* claim's kind
C9_Witness ==
    /\ stripped # None
    /\ ~Nested(value)
    /\ Cardinality({j \in 1..Len(value) : CSIAt(value, j)}) >= 2
    /\ Len(value) - Len(Get(stripped)) >= 6
(***************************************************************************)
(* Encoding resolution: _compat.py:34-52.                                  *)
(***************************************************************************)
\* codecs.lookup(encoding).name for the names of the model: the codec
\* registry resolves each alias to the codec's own name; "" stands for a
\* name the registry does not know
CodecName(n) ==
    CASE n \in {"ascii", "us-ascii", "646", "ANSI_X3.4-1968"} -> "ascii"
      [] n \in {"utf-8", "utf8"} -> "utf-8"
      [] n \in {"latin-1", "iso-8859-1"} -> "iso8859-1"
      [] OTHER -> ""

\* codecs.lookup: the codec's name, or LookupError for an unknown name
codecs_lookup(encoding) ==
    IF CodecName(encoding) = "" THEN Raised("LookupError")
    ELSE Returned(CodecName(encoding))

\* a plausible slip: the name compared as written, aliases not resolved
is_ascii_encoding_literal(encoding) == encoding = "ascii"

\* _compat.py:38  is_ascii_encoding
is_ascii_encoding(encoding) ==
    LET found == codecs_lookup(encoding)
    IN  IF found.exc = None THEN found.rv = "ascii"   \* try: ... .name == 'ascii'
        ELSE FALSE                                    \* except LookupError

\* getattr(stream, 'encoding', None)
getattr_encoding(stream) ==
    CASE stream.kind = "sys" -> sys_streams[stream.name].encoding
      [] stream.kind = "wrapper" -> heap[stream.id].encoding
      [] OTHER -> PyNone

\* getattr(stream, 'errors', None)
getattr_errors(stream) ==
    CASE stream.kind = "sys" -> sys_streams[stream.name].errors
      [] stream.kind = "wrapper" -> heap[stream.id].errors
      [] OTHER -> PyNone

\* _compat.py:45  get_best_encoding
get_best_encoding(stream) ==
    LET declared == getattr_encoding(stream)
        rv == IF Truthy(declared) THEN declared[2] ELSE default_encoding
    IN  IF ~is_ascii_encoding(rv) THEN rv ELSE "utf-8"

\* _compat.py:50  _stream_is_misconfigured
_stream_is_misconfigured(stream) ==
    LET declared == getattr_encoding(stream)
    IN  is_ascii_encoding(IF Truthy(declared) THEN declared[2] ELSE "")

(***************************************************************************)
(* _wrappers.py:4-8  _NonClosingTextIOWrapper.__init__                     *)
(***************************************************************************)
\* a call that returned the newly constructed object obj, now known as v
Constructed(v, obj) == [exc |-> None, rv |-> v, new |-> Some(obj)]

\* io.TextIOWrapper.__init__ accepts only a str or None as encoding and as
\* errors (TypeError otherwise), looks the encoding up (LookupError for an
\* unknown name) and refuses a closed binary stream (ValueError); with
\* encoding None it takes the default encoding.
\* The new wrapper is attached to the binary stream it was given.
_NonClosingTextIOWrapper__init__(stream, encoding, errors) ==
    IF ~(IsNone(encoding) \/ IsStr(encoding)) THEN Raised("TypeError")
    ELSE IF ~(IsNone(errors) \/ IsStr(errors)) THEN Raised("TypeError")
    ELSE IF IsStr(encoding) /\ codecs_lookup(encoding[2]).exc # None
         THEN Raised("LookupError")
    ELSE IF buffer_closed[stream.name] THEN Raised("ValueError")
    ELSE Constructed(WrapperObj(stream.name, Len(heap) + 1),
                     [buffer |-> stream,
                      encoding |-> IF IsNone(encoding) THEN PyStr(default_encoding)
                                   ELSE encoding,
                      errors |-> IF IsNone(errors) THEN PyStr("strict") ELSE errors,
                      detached |-> FALSE])

(***************************************************************************)
(* The text accessors: _compat.py:159-184.  The three functions are the    *)
(* same code over sys.stdin, sys.stdout and sys.stderr; name says which.   *)
(***************************************************************************)
get_text_std(name, encoding, errors) ==
    LET encoding1 == IF IsNone(encoding)
                     THEN PyStr(get_best_encoding(SysStream(name)))
                     ELSE encoding
        errors1 == IF IsNone(errors) THEN PyStr("replace") ELSE errors
    IN  IF _stream_is_misconfigured(SysStream(name))
        THEN _NonClosingTextIOWrapper__init__(SysBuffer(name), encoding1, errors1)
        ELSE Returned(SysStream(name))

\* _compat.py:159  get_text_stdin
get_text_stdin(encoding, errors) == get_text_std("stdin", encoding, errors)

\* _compat.py:168  get_text_stdout
get_text_stdout(encoding, errors) == get_text_std("stdout", encoding, errors)

\* _compat.py:177  get_text_stderr
get_text_stderr(encoding, errors) == get_text_std("stderr", encoding, errors)

\* text_streams[name], _compat.py:211
text_streams(name, encoding, errors) ==
    CASE name = "stdin" -> get_text_stdin(encoding, errors)
      [] name = "stdout" -> get_text_stdout(encoding, errors)
      [] name = "stderr" -> get_text_stderr(encoding, errors)

(***************************************************************************)
(* Calls of get_best_encoding and of the text accessors, in an environment *)
(* whose standard streams declare any of the sampled encodings.            *)
(***************************************************************************)
\* what a standard stream's encoding attribute may hold
DeclaredEncodings ==
    {PyNone, PyStr(""), PyStr("ascii"), PyStr("us-ascii"), PyStr("utf-8"),
     PyStr("latin-1"), PyStr("bogus")}

\* what sys.getdefaultencoding() may return
DefaultEncodings == {"utf-8", "ascii"}

\* the encoding and errors arguments a caller passes
EncodingArgs == {PyNone, PyStr("latin-1"), PyStr("bogus")}

ErrorsArgs == {PyNone, PyStr("strict"), PyStr("ignore")}

InitText ==
    /\ \E declared \in [StdNames -> DeclaredEncodings] :
           sys_streams = [n \in StdNames |->
                            [encoding |-> declared[n], errors |-> DeclaredErrors(n),
                             tty |-> "no"]]
    /\ default_encoding \in DefaultEncodings
    /\ IdleObj
    /\ last = NoCall
    /\ IdleAnsi
    /\ IdleCache
    /\ IdleThreads
    /\ IdleOpen
    /\ IdleWin

notText == <<ansiVars, cacheVars, threadVars, openVars, winVars>>

\* the stream objects a caller can name
LiveStreams ==
    {SysStream(n) : n \in StdNames} \cup {SysBuffer(n) : n \in StdNames}
        \cup {WrapperObj(heap[i].buffer.name, i) : i \in DOMAIN heap}

CallGetBestEncoding ==
    \E stream \in LiveStreams :
        /\ last' = [op |-> "get_best_encoding", stream |-> stream,
                    declared |-> getattr_encoding(stream),
                    out |-> Returned(get_best_encoding(stream))]
        /\ UNCHANGED <<envVars, objVars>>
        /\ UNCHANGED notText

\* The caller keeps only the result of its last call: a wrapper returned
\* by an earlier call has been dropped and collected by now.
CallGetText ==
    \E name \in StdNames, encoding \in EncodingArgs, errors \in ErrorsArgs :
        LET out == [text_streams(name, encoding, errors) EXCEPT
                        !.rv = IF @.kind = "wrapper"
                               THEN WrapperObj(name, 1) ELSE @]
        IN  /\ last' = [op |-> "get_text", name |-> name, encoding |-> encoding,
                        errors |-> errors, out |-> out]
            /\ heap' = IF out.new # None THEN <<Get(out.new)>> ELSE <<>>
            /\ UNCHANGED <<envVars, buffer_closed>>
            /\ UNCHANGED notText

NextText ==
    \/ CallGetBestEncoding
    \/ CallGetText

SpecText == InitText /\ [][NextText]_vars

\* the name resolves to the ascii codec
IsAsciiName(n) == CodecName(n) = "ascii"

\* two encoding attributes name the same codec
SameCodec(a, b) ==
    \/ a = b
    \/ /\ IsStr(a) /\ IsStr(b)
       /\ CodecName(a[2]) # ""
       /\ CodecName(a[2]) = CodecName(b[2])

\* C4: get_best_encoding never returns an ASCII encoding and never raises:
\* a declared encoding that is an alias of ascii gives 'utf-8'; with no
\* declared encoding the runtime default is used, replaced by 'utf-8' when
\* it is ASCII; a declared encoding of unknown name is returned unchanged.
C4_BestEncoding ==
    last.op = "get_best_encoding" =>
        LET declared == last.declared
            rv == last.out.rv
        IN  /\ last.out.exc = None
            /\ ~IsAsciiName(rv)
            /\ (Truthy(declared) /\ IsAsciiName(declared[2])) => rv = "utf-8"
            /\ ~Truthy(declared) =>
                   rv = IF IsAsciiName(default_encoding) THEN "utf-8"
                        ELSE default_encoding
            /\ (Truthy(declared) /\ CodecName(declared[2]) = "") =>
                   rv = declared[2]

\* C4 witness: a stream declaring an alias of ascii was resolved to 'utf-8'
C4_Witness ==
    /\ last.op = "get_best_encoding"
    /\ last.declared = PyStr("us-ascii")
    /\ last.out.rv = "utf-8"

\* C5 as claimed: the stream a text accessor returns uses the encoding and
\* the error policy the caller supplied, the best encoding and 'replace'
\* where the caller supplied none, whether or not the standard stream is
\* misconfigured; an encoding the codec registry knows is never refused.
C5_OverridesHonoured ==
    last.op = "get_text" =>
        LET wantEncoding == IF IsNone(last.encoding)
                            THEN PyStr(get_best_encoding(SysStream(last.name)))
                            ELSE last.encoding
            wantErrors == IF IsNone(last.errors) THEN PyStr("replace")
                          ELSE last.errors
        IN  /\ CodecName(wantEncoding[2]) # "" => last.out.exc = None
            /\ last.out.exc = None =>
                   /\ SameCodec(getattr_encoding(last.out.rv), wantEncoding)
                   /\ getattr_errors(last.out.rv) = wantErrors
(***************************************************************************)
(* _wrappers.py:4-14  _NonClosingTextIOWrapper: the methods it inherits    *)
(* from io.TextIOWrapper and its __del__.  Each takes the wrapper's index  *)
(* in heap and whether the write of pending text to the binary stream      *)
(* fails this time, and gives the outcome of the call, the wrapper's       *)
(* detached flag after it and whether the binary stream got closed.        *)
(***************************************************************************)
Effect(out, detached, closes) ==
    [out |-> out, detached |-> detached, closes |-> closes]

\* io.TextIOWrapper.detach: refuses a detached wrapper, flushes (which
\* refuses a closed binary stream and may fail in its write), then lets
\* the binary stream go without closing it
TextIOWrapper_detach(i, flushFails) ==
    LET w == heap[i]
    IN  IF w.detached THEN Effect(Raised("ValueError"), TRUE, FALSE)
        ELSE IF buffer_closed[w.buffer.name]
             THEN Effect(Raised("ValueError"), FALSE, FALSE)
        ELSE IF flushFails THEN Effect(Raised("OSError"), FALSE, FALSE)
        ELSE Effect(Returned(w.buffer), TRUE, FALSE)

\* io.TextIOWrapper.close: refuses a detached wrapper, does nothing on a
\* closed one, else flushes and closes the binary stream (also when the
\* flush failed, whose exception it then raises); _FixupStream.__getattr__
\* (_wrappers.py:31) hands the close on to the binary stream
TextIOWrapper_close(i, flushFails) ==
    LET w == heap[i]
    IN  IF w.detached THEN Effect(Raised("ValueError"), TRUE, FALSE)
        ELSE IF buffer_closed[w.buffer.name]
             THEN Effect(Returned(NoStream), FALSE, FALSE)
        ELSE IF flushFails THEN Effect(Raised("OSError"), FALSE, TRUE)
        ELSE Effect(Returned(NoStream), FALSE, TRUE)

\* a plausible slip: the teardown io.IOBase.__del__ does, which closes
_NonClosingTextIOWrapper__del__closing(i, flushFails) ==
    TextIOWrapper_close(i, flushFails)

\* _wrappers.py:10  _NonClosingTextIOWrapper.__del__
_NonClosingTextIOWrapper__del__(i, flushFails) ==
    LET tried == TextIOWrapper_detach(i, flushFails)      \* try: self.detach()
    IN  \* except Exception: pass -- whatever detach raised, __del__ returns
        Effect(Returned(NoStream), tried.detached, tried.closes)

(***************************************************************************)
(* The life of the wrappers the text accessors construct over the binary   *)
(* standard streams: detached, closed and torn down in any order.          *)
(***************************************************************************)
InitWrap ==
    /\ \E declared \in [StdNames -> {PyStr("ascii"), PyStr("utf-8")}] :
           sys_streams = [n \in StdNames |->
                            [encoding |-> declared[n], errors |-> DeclaredErrors(n),
                             tty |-> "no"]]
    /\ default_encoding = "utf-8"
    /\ heap = <<>>
    /\ buffer_closed = [n \in StdNames |-> FALSE]
    /\ last = NoCall
    /\ IdleAnsi
    /\ IdleCache
    /\ IdleThreads
    /\ IdleOpen
    /\ IdleWin

notWrap == <<ansiVars, cacheVars, threadVars, openVars, winVars>>

\* the heap and the binary streams after a method call on wrapper i
ApplyEffect(op, i, eff) ==
    /\ heap' = [heap EXCEPT ![i].detached = eff.detached]
    /\ buffer_closed' = IF eff.closes
                        THEN [buffer_closed EXCEPT ![heap[i].buffer.name] = TRUE]
                        ELSE buffer_closed
    /\ last' = [op |-> op, id |-> i, out |-> eff.out,
                was_detached |-> heap[i].detached]

WrapGetText ==
    \E name \in StdNames :
        LET out == text_streams(name, PyNone, PyNone)
        IN  /\ Len(heap) < MaxWrappers
            /\ heap' = IF out.new # None THEN Append(heap, Get(out.new)) ELSE heap
            /\ last' = [op |-> "get_text", id |-> out.rv.id, out |-> out,
                        was_detached |-> FALSE]
            /\ UNCHANGED <<envVars, buffer_closed>>
            /\ UNCHANGED notWrap

WrapDetach ==
    \E i \in DOMAIN heap, flushFails \in BOOLEAN :
        /\ ApplyEffect("detach", i, TextIOWrapper_detach(i, flushFails))
        /\ UNCHANGED envVars
        /\ UNCHANGED notWrap

WrapClose ==
    \E i \in DOMAIN heap, flushFails \in BOOLEAN :
        /\ ApplyEffect("close", i, TextIOWrapper_close(i, flushFails))
        /\ UNCHANGED envVars
        /\ UNCHANGED notWrap

\* __del__ runs when the wrapper is collected, and a caller may invoke it
\* before that: it can run more than once on one wrapper
WrapDel ==
    \E i \in DOMAIN heap, flushFails \in BOOLEAN :
        /\ ApplyEffect("__del__", i, _NonClosingTextIOWrapper__del__(i, flushFails))
        /\ UNCHANGED envVars
        /\ UNCHANGED notWrap

NextWrap ==
    \/ WrapGetText
    \/ WrapDetach
    \/ WrapClose
    \/ WrapDel

SpecWrap == InitWrap /\ [][NextWrap]_vars

\* C6: a detach or a teardown of a wrapper never closes the binary stream
\* under it, and a teardown never raises, whatever was done to the wrapper
\* before (detached, torn down, closed) and whether or not its flush fails.
C6_TeardownKeepsOpen ==
    [][/\ last'.op \in {"__del__", "detach"} => buffer_closed' = buffer_closed
       /\ last'.op = "__del__" => last'.out.exc = None]_vars

\* C6 witness: a wrapper that was already detached has been torn down and
\* the binary stream under it is open
C6_Witness ==
    /\ last.op = "__del__"
    /\ last.was_detached
    /\ last.out.exc = None
    /\ ~buffer_closed[heap[last.id].buffer.name]
(***************************************************************************)
(* Terminal detection: _compat.py:105-122.                                 *)
(***************************************************************************)
PyBool(b) == <<"bool", b>>

\* stream.isatty() of a standard stream: a terminal, not a terminal, or a
\* check that raises (a closed or broken stream)
stream_isatty(stream) ==
    CASE sys_streams[stream.name].tty = "yes" -> Returned(TRUE)
      [] sys_streams[stream.name].tty = "no" -> Returned(FALSE)
      [] OTHER -> Raised("ValueError")

\* a plausible slip: a check that raises counts as a terminal
isatty_raise_is_tty(stream) ==
    LET target == IF IsNone(stream) THEN SysStream("stdout") ELSE stream[2]
        checked == stream_isatty(target)
    IN  [rv |-> IF checked.exc = None THEN checked.rv ELSE TRUE,
         probed |-> Some(target)]

\* _compat.py:115  isatty; probed is the stream whose isatty() was called
isatty(stream) ==
    LET target == IF IsNone(stream) THEN SysStream("stdout") ELSE stream[2]
        checked == stream_isatty(target)                       \* try:
    IN  [rv |-> IF checked.exc = None THEN checked.rv ELSE FALSE,  \* except Exception
         probed |-> Some(target)]

\* _compat.py:105  should_strip_ansi
should_strip_ansi(stream, color) ==
    IF IsNone(color)
    THEN [rv |-> ~isatty(stream).rv, probed |-> isatty(stream).probed]
    ELSE [rv |-> ~color[2], probed |-> None]

(***************************************************************************)
(* Calls of should_strip_ansi on the standard streams and on no stream.    *)
(***************************************************************************)
InitTty ==
    /\ \E tty \in [StdNames -> {"yes", "no", "raises"}] :
           sys_streams = [n \in StdNames |->
                            [encoding |-> PyStr("utf-8"), errors |-> DeclaredErrors(n),
                             tty |-> tty[n]]]
    /\ default_encoding = "utf-8"
    /\ IdleObj
    /\ last = NoCall
    /\ IdleAnsi
    /\ IdleCache
    /\ IdleThreads
    /\ IdleOpen
    /\ IdleWin

notTty == <<ansiVars, objVars, cacheVars, threadVars, openVars, winVars>>

CallShouldStripAnsi ==
    \E stream \in {PyNone} \cup {PyObj(SysStream(n)) : n \in StdNames},
       color \in {PyNone, PyBool(TRUE), PyBool(FALSE)} :
        /\ last' = [op |-> "should_strip_ansi", stream |-> stream, color |-> color,
                    out |-> should_strip_ansi(stream, color)]
        /\ UNCHANGED envVars
        /\ UNCHANGED notTty

CallIsatty ==
    \E stream \in {PyNone} \cup {PyObj(SysStream(n)) : n \in StdNames} :
        /\ last' = [op |-> "isatty", stream |-> stream, color |-> PyNone,
                    out |-> isatty(stream)]
        /\ UNCHANGED envVars
        /\ UNCHANGED notTty

NextTty ==
    \/ CallShouldStripAnsi
    \/ CallIsatty

SpecTty == InitTty /\ [][NextTty]_vars

\* C3: with color unset should_strip_ansi is true exactly when the stream
\* (sys.stdout for no stream) is not a terminal, a stream whose check raises
\* included; with color set it is the negation of color and no stream's
\* terminal check is called.
C3_ShouldStrip ==
    last.op = "should_strip_ansi" =>
        LET target == IF IsNone(last.stream) THEN "stdout" ELSE last.stream[2].name
        IN  /\ IsNone(last.color) =>
                   last.out.rv = (sys_streams[target].tty # "yes")
            /\ ~IsNone(last.color) =>
                   /\ last.out.rv = ~last.color[2]
                   /\ last.out.probed = None

\* C3 witness: color unset, no stream given, sys.stdout's check raises and
\* the answer is to strip
C3_Witness ==
    /\ last.op = "should_strip_ansi"
    /\ IsNone(last.color)
    /\ IsNone(last.stream)
    /\ sys_streams["stdout"].tty = "raises"
    /\ last.out.rv
(***************************************************************************)
(* The cached accessors: _compat.py:15-32 and 207-209.                     *)
(*   _default_text_stdin  = _make_cached_stream_func(lambda: sys.stdin,    *)
(*                                                   get_text_stdin)       *)
(* and likewise for stdout and stderr; name says which of the three.       *)
(***************************************************************************)
\* no keyword arguments
NoKwargs == [k \in {} |-> PyNone]

\* wrapper_factory(*positional, **kwargs) where wrapper_factory is
\* get_text_std<name>(encoding=None, errors=None): Python binds the
\* positional arguments to encoding and errors in that order, and raises
\* TypeError for a third positional argument, for a keyword that names no
\* parameter and for a parameter given both ways.
call_wrapper_factory(name, positional, kwargs) ==
    IF Len(positional) > 2 THEN Raised("TypeError")
    ELSE IF DOMAIN kwargs \ {"encoding", "errors"} # {} THEN Raised("TypeError")
    ELSE IF "encoding" \in DOMAIN kwargs /\ Len(positional) >= 1
         THEN Raised("TypeError")
    ELSE IF "errors" \in DOMAIN kwargs /\ Len(positional) >= 2
         THEN Raised("TypeError")
    ELSE LET encoding == IF Len(positional) >= 1 THEN positional[1]
                         ELSE IF "encoding" \in DOMAIN kwargs THEN kwargs["encoding"]
                         ELSE PyNone
             errors == IF Len(positional) >= 2 THEN positional[2]
                       ELSE IF "errors" \in DOMAIN kwargs THEN kwargs["errors"]
                       ELSE PyNone
         IN  text_streams(name, encoding, errors)

\* factory(): lambda: sys.<name>
factory(name) == SysStream(name)

\* _compat.py:27  stream = wrapper_factory(factory(), *args, **kwargs)
get_stream_construct(name, args, kwargs) ==
    call_wrapper_factory(name, <<PyObj(factory(name))>> \o args, kwargs)

\* _compat.py:22  get_stream, run without interruption: what it returns or
\* raises, the object it constructed, whether factory and wrapper_factory
\* were invoked, and the cache after it
get_stream(name, args, kwargs) ==
    LET stream == cache[name][pid]                    \* cache.get(os.getpid())
    IN  IF IsNone(stream)
        THEN LET made == get_stream_construct(name, args, kwargs)
             IN  IF made.exc # None
                 THEN [out |-> made, invoked |-> TRUE, cache |-> cache]
                 ELSE [out |-> made, invoked |-> TRUE,
                       cache |-> [cache EXCEPT ![name][pid] = PyObj(made.rv)]]
        ELSE [out |-> Returned(stream[2]), invoked |-> FALSE, cache |-> cache]

(***************************************************************************)
(* Calls of the cached accessors, one after the other, with the process id *)
(* changing between them (a fork, or os.getpid replaced in a test).        *)
(***************************************************************************)
Pids == 1..MaxPid

\* the positional and keyword arguments a caller passes to an accessor
AccessorArgs == {<<>>, <<PyStr("utf-8")>>, <<PyStr("utf-8"), PyStr("replace")>>}

AccessorKwargs ==
    {NoKwargs, [k \in {"errors"} |-> PyStr("replace")],
     [k \in {"encoding"} |-> PyStr("utf-8")]}

EmptyCache == [n \in StdNames |-> [p \in Pids |-> PyNone]]

InitCache ==
    /\ \E declared \in [StdNames -> {PyStr("ascii"), PyStr("utf-8")}] :
           sys_streams = [n \in StdNames |->
                            [encoding |-> declared[n], errors |-> DeclaredErrors(n),
                             tty |-> "no"]]
    /\ default_encoding = "utf-8"
    /\ IdleObj
    /\ pid = 1
    /\ cache = EmptyCache
    /\ hist = <<>>
    /\ last = NoCall
    /\ IdleAnsi
    /\ IdleThreads
    /\ IdleOpen
    /\ IdleWin

notCache == <<ansiVars, threadVars, openVars, winVars, last>>

CallAccessor ==
    \E name \in StdNames, args \in AccessorArgs, kwargs \in AccessorKwargs :
        LET got == get_stream(name, args, kwargs)
        IN  /\ Len(hist) < MaxCalls
            /\ cache' = got.cache
            /\ heap' = IF got.out.new # None THEN Append(heap, Get(got.out.new))
                       ELSE heap
            /\ hist' = Append(hist, [name |-> name, pid |-> pid,
                                     exc |-> got.out.exc, rv |-> got.out.rv,
                                     invoked |-> got.invoked])
            /\ UNCHANGED <<envVars, buffer_closed, pid>>
            /\ UNCHANGED notCache

ChangePid ==
    \E p \in Pids \ {pid} :
        /\ pid' = p
        /\ UNCHANGED <<envVars, objVars, cache, hist>>
        /\ UNCHANGED notCache

NextCache ==
    \/ CallAccessor
    \/ ChangePid

SpecCache == InitCache /\ [][NextCache]_vars

\* C1 as claimed: of two calls of one accessor, made under the same process
\* id, both return the identical stream and the later one invokes neither
\* factory nor wrapper function; made under different process ids, the
\* later one returns another instance than the earlier one.
C1_CachedPerPid ==
    \A i, j \in DOMAIN hist :
        (i < j /\ hist[i].name = hist[j].name) =>
            /\ hist[i].pid = hist[j].pid =>
                   /\ hist[i].exc = None /\ hist[j].exc = None
                   /\ hist[j].rv = hist[i].rv
                   /\ ~hist[j].invoked
            /\ (hist[i].pid # hist[j].pid /\ hist[i].exc = None /\ hist[j].exc = None) =>
                   hist[j].rv # hist[i].rv

(***************************************************************************)
(* Threads of one process calling the cached accessors at the same time:   *)
(* get_stream (_compat.py:22-30) runs line by line, and another thread may *)
(* run between any two lines.                                              *)
(***************************************************************************)
Threads == 1..NThreads

notThreads == <<ansiVars, openVars, winVars, last>>

IdleFrame == [name |-> "", args |-> <<>>, pid |-> 0, stream |-> PyNone, seen |-> PyNone]

\* A call begins: seen is the stream the cache holds for this accessor if
\* no other call of it is running, None otherwise.
ThreadBegin(t) ==
    \E name \in StdNames, args \in {<<>>, <<PyStr("utf-8")>>} :
        /\ pc[t] = "idle"
        /\ calls[t] < MaxCallsPerThread
        /\ calls' = [calls EXCEPT ![t] = @ + 1]
        /\ pc' = [pc EXCEPT ![t] = "l23"]
        /\ frame' = [frame EXCEPT ![t] =
                        [name |-> name, args |-> args, pid |-> 0, stream |-> PyNone,
                         seen |-> IF \E u \in Threads :
                                        pc[u] # "idle" /\ frame[u].name = name
                                  THEN PyNone ELSE cache[name][pid]]]
        /\ UNCHANGED <<envVars, objVars, pid, cache, hist, result, last_write>>
        /\ UNCHANGED notThreads

\* lines 23-26: pid = os.getpid(); stream = cache.get(pid); if stream is None
ThreadLookup(t) ==
    /\ pc[t] = "l23"
    /\ frame' = [frame EXCEPT ![t].pid = pid, ![t].stream = cache[frame[t].name][pid]]
    /\ pc' = [pc EXCEPT ![t] = IF IsNone(cache[frame[t].name][pid]) THEN "l27"
                               ELSE "l30"]
    /\ UNCHANGED <<envVars, objVars, pid, cache, hist, calls, result, last_write>>
    /\ UNCHANGED notThreads

\* line 27: stream = wrapper_factory(factory(), *args, **kwargs); an
\* exception ends the call
ThreadConstruct(t) ==
    LET made == get_stream_construct(frame[t].name, frame[t].args, NoKwargs)
    IN  /\ pc[t] = "l27"
        /\ heap' = IF made.new # None THEN Append(heap, Get(made.new)) ELSE heap
        /\ IF made.exc # None
           THEN /\ pc' = [pc EXCEPT ![t] = "idle"]
                /\ result' = [result EXCEPT ![t] =
                                [name |-> frame[t].name, exc |-> made.exc,
                                 rv |-> NoStream, seen |-> frame[t].seen]]
                /\ frame' = [frame EXCEPT ![t] = IdleFrame]
           ELSE /\ pc' = [pc EXCEPT ![t] = "l28"]
                /\ frame' = [frame EXCEPT ![t].stream = PyObj(made.rv)]
                /\ UNCHANGED result
        /\ UNCHANGED <<envVars, buffer_closed, pid, cache, hist, calls, last_write>>
        /\ UNCHANGED notThreads

\* line 28: cache[pid] = stream
ThreadStore(t) ==
    /\ pc[t] = "l28"
    /\ cache' = [cache EXCEPT ![frame[t].name][frame[t].pid] = frame[t].stream]
    /\ last_write' = [last_write EXCEPT ![frame[t].name] = frame[t].stream]
    /\ pc' = [pc EXCEPT ![t] = "l30"]
    /\ UNCHANGED <<envVars, objVars, pid, hist, calls, frame, result>>
    /\ UNCHANGED notThreads

\* line 30: return stream
ThreadReturn(t) ==
    /\ pc[t] = "l30"
    /\ result' = [result EXCEPT ![t] =
                    [name |-> frame[t].name, exc |-> None,
                     rv |-> frame[t].stream[2], seen |-> frame[t].seen]]
    /\ pc' = [pc EXCEPT ![t] = "idle"]
    /\ frame' = [frame EXCEPT ![t] = IdleFrame]
    /\ UNCHANGED <<envVars, objVars, pid, cache, hist, calls, last_write>>
    /\ UNCHANGED notThreads

InitThreads ==
    /\ \E declared \in [StdNames -> {PyStr("ascii"), PyStr("utf-8")}] :
           sys_streams = [n \in StdNames |->
                            [encoding |-> declared[n], errors |-> DeclaredErrors(n),
                             tty |-> "no"]]
    /\ default_encoding = "utf-8"
    /\ IdleObj
    /\ pid = 1
    /\ cache = EmptyCache
    /\ hist = <<>>
    /\ pc = [t \in Threads |-> "idle"]
    /\ frame = [t \in Threads |-> IdleFrame]
    /\ calls = [t \in Threads |-> 0]
    /\ result = [t \in Threads |-> NoResult]
    /\ last_write = [n \in StdNames |-> PyNone]
    /\ last = NoCall
    /\ IdleAnsi
    /\ IdleOpen
    /\ IdleWin

NextThreads ==
    \E t \in Threads :
        \/ ThreadBegin(t)
        \/ ThreadLookup(t)
        \/ ThreadConstruct(t)
        \/ ThreadStore(t)
        \/ ThreadReturn(t)

SpecThreads == InitThreads /\ [][NextThreads]_vars

\* C10 as claimed: once every call of an accessor has finished, the cache
\* holds for the process id one stream, the one the last write stored, and
\* a call that begins with no other call of the accessor running returns
\* the stream the cache held when it began.
C10_LastWriteWins ==
    \A t \in Threads :
        (result[t].name # "" /\ \A u \in Threads : pc[u] = "idle") =>
            /\ ~IsNone(cache[result[t].name][pid])
            /\ cache[result[t].name][pid] = last_write[result[t].name]
            /\ ~IsNone(result[t].seen) =>
                   /\ result[t].exc = None
                   /\ result[t].rv = result[t].seen[2]
(***************************************************************************)
(* Opening files and the standard-stream shortcut: _compat.py:34-36 and    *)
(* 68-103.                                                                 *)
(***************************************************************************)
PyInt(n) == <<"int", n>>

\* isinstance(filename, int)
IsInt(v) == v[1] = "int"

\* c in mode, for a mode written as the sequence of its characters
In(c, mode) == \E i \in DOMAIN mode : mode[i] = c

\* the k-th file object open() returned, for the path it was opened on
FileObj(path, k) == [kind |-> "file", name |-> path, id |-> k]

\* the result of open_stream: the stream, the should_close flag, the file
\* object opened (if one was) and the path created (if one was)
Opened(rv, should_close, file) ==
    [exc |-> None, rv |-> rv, should_close |-> should_close, opened |-> file]

NotOpened(e) ==
    [exc |-> Some(e), rv |-> NoStream, should_close |-> FALSE, opened |-> None]

\* _compat.py:34  _get_argv_encoding; sys.getfilesystemencoding() is
\* 'utf-8'
_get_argv_encoding ==
    LET declared == getattr_encoding(SysStream("stdin"))
    IN  IF Truthy(declared) THEN declared[2] ELSE "utf-8"

\* the built-in open() on a path: 'r' needs the file to exist, 'x' needs it
\* not to, a text mode looks its encoding up; the new file object is the
\* next of handles
builtin_open(file, mode, encoding, errors) ==
    IF In("r", mode) /\ file[2] \notin fs THEN NotOpened("FileNotFoundError")
    ELSE IF In("x", mode) /\ file[2] \in fs THEN NotOpened("FileExistsError")
    ELSE IF ~In("b", mode) /\ IsStr(encoding) /\ CodecName(encoding[2]) = ""
         THEN NotOpened("LookupError")
    ELSE Opened(FileObj(file[2], Len(handles) + 1), TRUE,
                Some([path |-> file[2], mode |-> mode, encoding |-> encoding,
                      errors |-> errors, closed |-> FALSE]))

\* _compat.py:68  _wrap_io_open
_wrap_io_open(file, mode, encoding, errors) ==
    IF In("b", mode) THEN builtin_open(file, mode, PyNone, PyNone)
    ELSE builtin_open(file, mode, encoding, errors)

\* _compat.py:74  _find_binary_reader: a binary stream is returned as it
\* is, a text stream gives its buffer, anything else is returned as it is
_find_binary_reader(stream) ==
    IF stream.kind = "buffer" THEN stream       \* isinstance(stream, (RawIOBase, BufferedIOBase))
    ELSE IF stream.kind = "sys" THEN SysBuffer(stream.name)   \* stream.buffer
    ELSE stream

\* _compat.py:83  _find_binary_writer
_find_binary_writer(stream) ==
    IF stream.kind = "buffer" THEN stream
    ELSE IF stream.kind = "sys" THEN SysBuffer(stream.name)
    ELSE stream

\* _compat.py:92  open_stream; atomic is accepted and not used
open_stream(filename, mode, encoding, errors, atomic) ==
    IF IsInt(filename)
    THEN IF In("w", mode)
         THEN Opened(_find_binary_writer(SysStream("stdout")), FALSE, None)
         ELSE Opened(_find_binary_reader(SysStream("stdin")), FALSE, None)
    ELSE IF In("b", mode)
         THEN [_wrap_io_open(filename, mode, PyNone, PyNone) EXCEPT
                   !.should_close = TRUE]
    ELSE LET encoding1 == IF Truthy(encoding) THEN encoding
                          ELSE PyStr(_get_argv_encoding)
         IN  [_wrap_io_open(filename, mode, encoding1, errors) EXCEPT
                  !.should_close = TRUE]

(***************************************************************************)
(* Calls of open_stream on descriptors and on paths of a small file        *)
(* system; the caller closes the file objects it was told to close.        *)
(***************************************************************************)
Paths == {"a.txt", "b.txt"}

\* the modes callers pass to open_stream
Modes == {<<"r">>, <<"w">>, <<"a">>, <<"x">>, <<"r", "b">>, <<"w", "b">>}

Filenames == {PyInt(0), PyInt(1)} \cup {PyStr(p) : p \in Paths}

InitOpen ==
    /\ \E declared \in {PyNone, PyStr("utf-8"), PyStr("latin-1")} :
           sys_streams = [n \in StdNames |->
                            [encoding |-> IF n = "stdin" THEN declared
                                          ELSE PyStr("utf-8"),
                             errors |-> DeclaredErrors(n), tty |-> "no"]]
    /\ default_encoding = "utf-8"
    /\ IdleObj
    /\ fs \in SUBSET Paths
    /\ handles = <<>>
    /\ last = NoCall
    /\ IdleAnsi
    /\ IdleCache
    /\ IdleThreads
    /\ IdleWin

notOpen == <<ansiVars, envVars, cacheVars, threadVars, winVars, heap>>

CallOpenStream ==
    \E filename \in Filenames, mode \in Modes,
       encoding \in {PyNone, PyStr("latin-1")}, atomic \in BOOLEAN :
        LET out == open_stream(filename, mode, encoding, PyStr("strict"), atomic)
        IN  /\ Len(handles) < MaxOpen
            /\ handles' = IF out.opened # None THEN Append(handles, Get(out.opened))
                          ELSE handles
            /\ fs' = IF out.opened # None THEN fs \cup {Get(out.opened).path} ELSE fs
            /\ last' = [op |-> "open_stream", filename |-> filename, mode |-> mode,
                        encoding |-> encoding, out |-> out]
            /\ UNCHANGED buffer_closed
            /\ UNCHANGED notOpen

\* what the caller does with the pair it got: if should_close: f.close()
CallerCloses ==
    /\ last.op = "open_stream"
    /\ last.out.exc = None
    /\ last.out.should_close
    /\ IF last.out.rv.kind = "file"
       THEN /\ handles' = [handles EXCEPT ![last.out.rv.id].closed = TRUE]
            /\ UNCHANGED buffer_closed
       ELSE /\ buffer_closed' = [buffer_closed EXCEPT ![last.out.rv.name] = TRUE]
            /\ UNCHANGED handles
    /\ last' = [op |-> "close"]
    /\ UNCHANGED fs
    /\ UNCHANGED notOpen

NextOpen ==
    \/ CallOpenStream
    \/ CallerCloses

SpecOpen == InitOpen /\ [][NextOpen]_vars

\* a mode that opens for writing: 'w', 'a' or 'x'
WriteMode(mode) == In("w", mode) \/ In("a", mode) \/ In("x", mode)

\* a mode that opens for reading: 'r'
ReadMode(mode) == In("r", mode)

\* C2 as claimed: open_stream returns should_close false exactly for an
\* integer descriptor; a descriptor opened with a write mode gives the
\* binary standard output, with a read mode the binary standard input, and
\* no file is opened; a path gives a newly opened file and should_close
\* true.
C2_OpenStream ==
    (last.op = "open_stream" /\ last.out.exc = None) =>
        /\ last.out.should_close = ~IsInt(last.filename)
        /\ (IsInt(last.filename) /\ WriteMode(last.mode)) =>
               /\ last.out.rv = SysBuffer("stdout")
               /\ last.out.opened = None
        /\ (IsInt(last.filename) /\ ReadMode(last.mode)) =>
               /\ last.out.rv = SysBuffer("stdin")
               /\ last.out.opened = None
        /\ ~IsInt(last.filename) =>
               /\ last.out.opened # None
               /\ last.out.rv = FileObj(last.filename[2], Len(handles))

\* the part of C2 the code keeps: should_close is false exactly for an
\* integer descriptor, for which no file is opened and a binary standard
\* stream is returned, and a path gives a newly opened file
C2_ShouldClose ==
    (last.op = "open_stream" /\ last.out.exc = None) =>
        /\ last.out.should_close = ~IsInt(last.filename)
        /\ IsInt(last.filename) =>
               /\ last.out.rv \in {SysBuffer("stdout"), SysBuffer("stdin")}
               /\ last.out.opened = None
        /\ (IsInt(last.filename) /\ In("w", last.mode)) =>
               last.out.rv = SysBuffer("stdout")
        /\ ~IsInt(last.filename) =>
               /\ last.out.opened # None
               /\ last.out.rv = FileObj(last.filename[2], Len(handles))

(***************************************************************************)
(* Windows: auto_wrap_for_ansi, _compat.py:186-205.                        *)
(***************************************************************************)
\* the stream attribute of the k-th colorama.AnsiToWin32 built, over the
\* standard stream <name>
AnsiObj(name, k) == [kind |-> "ansi", name |-> name, id |-> k]

\* the result of auto_wrap_for_ansi: what it returned or raised, whether it
\* built an AnsiToWin32, and _ansi_stream_wrappers after it
Wrapped(out, built, wrappers) == [out |-> out, built |-> built, wrappers |-> wrappers]

\* _compat.py:190  auto_wrap_for_ansi.  `import colorama` raises
\* ImportError when the package is not installed, which the function
\* catches; reading colorama.enable raises AttributeError when the module
\* has no such attribute, which it does not catch.
auto_wrap_for_ansi(stream, color) ==
    LET cached == _ansi_stream_wrappers[stream.name]
    IN  IF ~IsNone(cached) THEN Wrapped(Returned(cached[2]), FALSE, _ansi_stream_wrappers)
        ELSE IF ~colorama.installed                  \* except ImportError
             THEN Wrapped(Returned(stream), FALSE, _ansi_stream_wrappers)
        ELSE IF IsNone(color) /\ ~colorama.has_enable
             THEN Wrapped(Raised("AttributeError"), FALSE, _ansi_stream_wrappers)
        ELSE LET strip == IF ~IsNone(color) THEN ~color[2] ELSE ~colorama.enable
                 wrapped == AnsiObj(stream.name, ansi_built + 1)
             IN  Wrapped([Returned(wrapped) EXCEPT !.new = Some([strip |-> strip])],
                         TRUE,
                         [_ansi_stream_wrappers EXCEPT ![stream.name] = PyObj(wrapped)])

(***************************************************************************)
(* Calls of auto_wrap_for_ansi on the standard streams, on Windows, with   *)
(* colorama installed or not.                                              *)
(***************************************************************************)
InitWin ==
    /\ colorama \in {[installed |-> FALSE, has_enable |-> FALSE, enable |-> FALSE],
                     [installed |-> TRUE, has_enable |-> FALSE, enable |-> FALSE],
                     [installed |-> TRUE, has_enable |-> TRUE, enable |-> FALSE],
                     [installed |-> TRUE, has_enable |-> TRUE, enable |-> TRUE]}
    /\ _ansi_stream_wrappers = [n \in StdNames |-> PyNone]
    /\ ansi_built = 0
    /\ hist = <<>>
    /\ pid = 1
    /\ cache = <<>>
    /\ last = NoCall
    /\ IdleEnv
    /\ IdleObj
    /\ IdleOpen
    /\ IdleAnsi
    /\ IdleThreads

notWin == <<ansiVars, envVars, objVars, openVars, threadVars, pid, cache, last>>

CallAutoWrap ==
    \E name \in StdNames, color \in {PyNone, PyBool(TRUE), PyBool(FALSE)} :
        LET got == auto_wrap_for_ansi(SysStream(name), color)
        IN  /\ Len(hist) < MaxCalls
            /\ _ansi_stream_wrappers' = got.wrappers
            /\ ansi_built' = IF got.built THEN ansi_built + 1 ELSE ansi_built
            /\ hist' = Append(hist, [name |-> name, color |-> color,
                                     exc |-> got.out.exc, rv |-> got.out.rv,
                                     built |-> got.built])
            /\ UNCHANGED colorama
            /\ UNCHANGED notWin

NextWin == CallAutoWrap

SpecWin == InitWin /\ [][NextWin]_vars

\* C7 as claimed: every call on a stream returns what the first call on it
\* returned and no call after the first builds a wrapper; with colorama
\* installed the first call builds one, and two streams never share one;
\* without colorama every call returns the stream itself and nothing is
\* cached.
C7_WrapOnce ==
    /\ \A i, j \in DOMAIN hist :
           (i < j /\ hist[i].name = hist[j].name) =>
               /\ hist[i].exc = None /\ hist[j].exc = None
               /\ hist[j].rv = hist[i].rv
               /\ ~hist[j].built
    /\ \A i, j \in DOMAIN hist :
           (hist[i].name # hist[j].name /\ hist[i].exc = None /\ hist[j].exc = None) =>
               hist[i].rv # hist[j].rv
    /\ \A i \in DOMAIN hist :
           IF colorama.installed
           THEN hist[i].exc = None /\ hist[i].rv.kind = "ansi"
           ELSE /\ hist[i].exc = None
                /\ hist[i].rv = SysStream(hist[i].name)
                /\ \A n \in StdNames : IsNone(_ansi_stream_wrappers[n])
====
